---- MODULE Spec2Model ----
(***************************************************************************)
(* A model of the Chronos ephemeris library (calendar.c, coordinates.c,    *)
(* planets.c, sun.c, moon.c, earth.c, orbital.c, geoobserver.c).           *)
(*                                                                         *)
(* The library is a set of pure functions over value types.  Each action   *)
(* of the model is one call of a public function: it draws the arguments   *)
(* from bounded sets, evaluates the function as the C code evaluates it    *)
(* and records the call in (op, arg, ret).                                 *)
(*                                                                         *)
(* Numbers.  A C double that holds a day number or a Julian Date is a      *)
(* binary fixed-point value [i, h, l] = i + h/2^26 + l/2^52 (i the floor): *)
(* every double of magnitude in [1, 2^22) is exactly such a value, and the *)
(* one addition of julian_date whose result is not (it lies in a higher    *)
(* binade than the day number) is rounded to the nearest double.  Values   *)
(* of dynamical_time_difference are exact rationals [num, den]; where one  *)
(* enters a sum of doubles it is cut to 52 fractional bits first.           *)
(***************************************************************************)
EXTENDS Integers, Sequences, FiniteSets, TLC

\* (op, arg, ret, pc, lt0, lt1, iter, locals): the call of a single caller;
\* deltat: the static arrays of calendar.c that are not declared const;
\* threads: the calls of the callers that run concurrently
VARIABLES op, arg, ret, pc, lt0, lt1, iter, locals, deltat, threads

vars == <<op, arg, ret, pc, lt0, lt1, iter, locals, deltat, threads>>

(***************************************************************************)
(* Bounds of the model.                                                    *)
(***************************************************************************)
\* sampled years are the pivot years and the YearSpan years on either side
YearSpan == 1
\* times of day are the multiples of 1/2^TickBits of a day
TickBits == 1

(***************************************************************************)
(* C integer arithmetic: / and % truncate toward zero.                     *)
(***************************************************************************)
Abs(n) == IF n < 0 THEN -n ELSE n

CDiv(a, b) ==
    IF (a >= 0) = (b > 0) THEN Abs(a) \div Abs(b) ELSE -(Abs(a) \div Abs(b))

CMod(a, b) == a - b * CDiv(a, b)

\* C's logical negation, an int
LogicalNot(c) == IF c THEN 0 ELSE 1

(***************************************************************************)
(* C doubles that hold day numbers and Julian Dates.                       *)
(***************************************************************************)
Limb == 2^26

HalfLimb == 2^25

Fx(i, h, l) == [i |-> i, h |-> h, l |-> l]

FxInt(n) == Fx(n, 0, 0)

FxHalf == Fx(0, HalfLimb, 0)

\* carries the limbs of an unnormalised sum
FxNorm(i, h, l) ==
    LET h2 == h + (l \div Limb)
    IN  Fx(i + (h2 \div Limb), h2 % Limb, l % Limb)

FxAdd(a, b) == FxNorm(a.i + b.i, a.h + b.h, a.l + b.l)

FxNeg(a) == FxNorm(-a.i - 1, (Limb - 1) - a.h, Limb - a.l)

FxSub(a, b) == FxAdd(a, FxNeg(b))

FxEq(a, b) == a.i = b.i /\ a.h = b.h /\ a.l = b.l

FxLess(a, b) ==
    \/ a.i < b.i
    \/ a.i = b.i /\ a.h < b.h
    \/ a.i = b.i /\ a.h = b.h /\ a.l < b.l

FxIsInt(a) == a.h = 0 /\ a.l = 0

\* (int)x and the integral part of modf(x): truncation toward zero
FxTrunc(a) == IF a.i < 0 /\ ~FxIsInt(a) THEN a.i + 1 ELSE a.i

\* the fractional part of modf(x), which has the sign of x
FxFrac(a) == Fx(IF a.i < 0 /\ ~FxIsInt(a) THEN -1 ELSE 0, a.h, a.l)

\* the exponent e of a positive integer n: 2^e <= n < 2^(e+1)
ILog2(n) == CHOOSE e \in 0..30 : 2^e <= n /\ (e = 30 \/ n < 2^(e + 1))

\* a sum of doubles, rounded to the nearest double (ties to even): a value
\* in [2^e, 2^(e+1)) keeps 52 - e fractional bits, a value below 1 that has
\* 52 fractional bits is a double already
RoundToDouble(x) ==
    IF x.i < 1 THEN x
    ELSE LET m  == 2^ILog2(x.i)
             q  == x.l \div m
             r  == x.l % m
             up == IF 2 * r > m \/ (2 * r = m /\ q % 2 = 1) THEN 1 ELSE 0
         IN  FxNorm(x.i, x.h, (q + up) * m)

(***************************************************************************)
(* calendar.h: enumerations and the date structure.                        *)
(***************************************************************************)
UNKNOWN_WEEKDAY == 0

MONDAY == 1

SUNDAY == 7

UNKNOWN_MONTH == 0

JANUARY == 1

FEBRUARY == 2

OCTOBER == 10

DECEMBER == 12

date(day, month, year) == [day |-> day, month |-> month, year |-> year]

(***************************************************************************)
(* calendar.c: constant tables.                                            *)
(***************************************************************************)
DELTA_T_TABLE_START_YEAR == -1000

DELTA_T_TABLE_END_YEAR == 2020

PRE_TELESCOPE_ERA_START_YEAR == -1000

PRE_TELESCOPE_ERA_YEAR_INTERVAL == 100

PRE_TELESCOPE_ERA_TOTAL_TERMS == 28

TELESCOPE_ERA_START_YEAR == 1700

TELESCOPE_ERA_YEAR_INTERVAL == 10

TELESCOPE_ERA_TOTAL_TERMS == 33

\* rows {year, delta T, uncertainty}; row k of the C array is element k + 1
deltat_pre_telescope_era ==
    << <<-1000, 25400, 640>>, <<-900, 23700, 590>>, <<-800, 22000, 550>>,
       <<-700, 20400, 500>>, <<-600, 18800, 460>>, <<-500, 17190, 430>>,
       <<-400, 15530, 390>>, <<-300, 14080, 360>>, <<-200, 12790, 330>>,
       <<-100, 11640, 290>>, <<0, 10580, 260>>, <<100, 9600, 240>>,
       <<200, 8640, 210>>, <<300, 7680, 180>>, <<400, 6700, 160>>,
       <<500, 5710, 140>>, <<600, 4740, 120>>, <<700, 3810, 100>>,
       <<800, 2960, 80>>, <<900, 2200, 70>>, <<1000, 1570, 55>>,
       <<1100, 1090, 40>>, <<1200, 740, 30>>, <<1300, 490, 20>>,
       <<1400, 320, 20>>, <<1500, 200, 20>>, <<1600, 120, 20>>,
       <<1700, 9, 5>> >>

deltat_telescope_era ==
    << <<1700, 9, 5>>, <<1710, 10, 3>>, <<1720, 11, 3>>, <<1730, 11, 3>>,
       <<1740, 12, 2>>, <<1750, 13, 2>>, <<1760, 15, 2>>, <<1770, 16, 2>>,
       <<1780, 17, 1>>, <<1790, 17, 1>>, <<1800, 14, 1>>, <<1810, 13, 1>>,
       <<1820, 12, 1>>, <<1830, 8, 1>>, <<1840, 6, 0>>, <<1850, 7, 0>>,
       <<1860, 8, 0>>, <<1870, 2, 0>>, <<1880, -5, 0>>, <<1890, -6, 0>>,
       <<1900, -3, 0>>, <<1910, 10, 0>>, <<1920, 21, 0>>, <<1930, 24, 0>>,
       <<1940, 24, 0>>, <<1950, 29, 0>>, <<1960, 33, 0>>, <<1970, 40, 0>>,
       <<1980, 51, 0>>, <<1990, 57, 0>>, <<2000, 65, 0>>, <<2010, 66, 0>>,
       <<2020, 71, 4>> >>

\* days_in_month[leap][month]; element 1 of a row is month 0 (UNKNOWN_MONTH)
days_in_month ==
    << <<0, 31, 28, 31, 30, 31, 30, 31, 31, 30, 31, 30, 31>>,
       <<0, 31, 29, 31, 30, 31, 30, 31, 31, 30, 31, 30, 31>> >>

JULIAN_START_DATE == date(Fx(1, HalfLimb, 0), JANUARY, -4712)

JULIAN_END_DATE == date(FxInt(4), OCTOBER, 1582)

GREGORIAN_START_DATE == date(FxInt(15), OCTOBER, 1582)

(***************************************************************************)
(* calendar.c: functions.                                                  *)
(***************************************************************************)
compare_dates(d1, d2) ==
    IF d1.year = d2.year
    THEN IF d1.month = d2.month
         THEN IF FxEq(d1.day, d2.day) THEN 0
              ELSE IF FxLess(d1.day, d2.day) THEN 1 ELSE -1
         ELSE IF d1.month < d2.month THEN 1 ELSE -1
    ELSE IF d1.year < d2.year THEN 1 ELSE -1

\* is_leap_year with the Gregorian rule applied to every year
is_leap_year_gregorian(y) ==
    IF (CMod(y, 4) = 0 /\ CMod(y, 100) # 0) \/ CMod(y, 400) = 0 THEN 1 ELSE 0

is_leap_year(y) ==
    IF y >= GREGORIAN_START_DATE.year
    THEN IF (CMod(y, 4) = 0 /\ CMod(y, 100) # 0) \/ CMod(y, 400) = 0 THEN 1 ELSE 0
    ELSE IF CMod(y, 4) = 0 THEN 1 ELSE 0

\* the operand of the second if of is_date_valid: !(a || b) + 1, where the
\* table is read only when d.day >= 0 is false
day_range_test(d) ==
    LogicalNot(\/ ~FxLess(d.day, FxInt(0))
               \/ FxLess(d.day, FxInt(days_in_month[is_leap_year(d.year) + 1][d.month + 1])))
    + 1

\* the condition of the last if of is_date_valid: the date occurs on the days
\* removed by the Gregorian reform
reform_gap_test(d) ==
    /\ compare_dates(JULIAN_END_DATE, d) > 0
    /\ compare_dates(GREGORIAN_START_DATE, d) < 0

is_date_valid(d) ==
    IF d.month < JANUARY \/ d.month > DECEMBER THEN 0
    ELSE IF day_range_test(d) # 0 THEN 0
    ELSE IF compare_dates(d, JULIAN_START_DATE) > 0 THEN 0
    ELSE IF reform_gap_test(d) THEN 0
    ELSE 1

\* julian_date without the Gregorian correction term
julian_date_uncorrected(d0) ==
    LET d == IF d0.month = JANUARY \/ d0.month = FEBRUARY
             THEN [d0 EXCEPT !.year = d0.year - 1, !.month = d0.month + 12]
             ELSE d0
        n == CDiv(1461 * (d.year + 4716), 4) + CDiv(306001 * (d.month + 1), 10000)
    IN  FxSub(RoundToDouble(FxAdd(FxInt(n), d.day)), Fx(1524, HalfLimb, 0))

julian_date(d0) ==
    LET d == IF d0.month = JANUARY \/ d0.month = FEBRUARY
             THEN [d0 EXCEPT !.year = d0.year - 1, !.month = d0.month + 12]
             ELSE d0
        a == CDiv(d.year, 100)
        b == IF compare_dates(GREGORIAN_START_DATE, d) >= 0
             THEN 2 - a + CDiv(a, 4)
             ELSE 0
        \* (int)(365.25 * (year + 4716)) + (int)(30.6001 * (month + 1))
        n == CDiv(1461 * (d.year + 4716), 4) + CDiv(306001 * (d.month + 1), 10000)
    IN  FxSub(FxAdd(RoundToDouble(FxAdd(FxInt(n), d.day)), FxInt(b)),
              Fx(1524, HalfLimb, 0))

\* calendar_date that takes January and February for months of the year c - 4716
calendar_date_same_year(jdn) ==
    LET x  == FxAdd(jdn, FxHalf)
        z  == FxTrunc(x)
        f  == FxFrac(x)
        ap == CDiv(4 * z - 7468865, 146097)
        a  == IF z < 2299161 THEN z ELSE z + 1 + ap - CDiv(ap, 4)
        b  == a + 1524
        c  == CDiv(20 * b - 2442, 7305)
        d  == CDiv(1461 * c, 4)
        e  == CDiv(10000 * (b - d), 306001)
    IN  date(FxAdd(FxInt(b - d - CDiv(306001 * e, 10000)), f),
             IF e < 14 THEN e - 1 ELSE e - 13,
             c - 4716)

calendar_date(jdn) ==
    LET x  == FxAdd(jdn, FxHalf)
        z  == FxTrunc(x)
        f  == FxFrac(x)
        \* modf((z - 1867216.25) / 36524.25, &ap)
        ap == CDiv(4 * z - 7468865, 146097)
        a  == IF z < 2299161 THEN z ELSE z + 1 + ap - CDiv(ap, 4)
        b  == a + 1524
        \* (int)((b - 122.1) / 365.25)
        c  == CDiv(20 * b - 2442, 7305)
        d  == CDiv(1461 * c, 4)
        \* (int)((b - d) / 30.6001)
        e  == CDiv(10000 * (b - d), 306001)
        month == IF e < 14 THEN e - 1 ELSE e - 13
    IN  date(FxAdd(FxInt(b - d - CDiv(306001 * e, 10000)), f),
             month,
             IF month > 2 THEN c - 4716 ELSE c - 4715)

\* day_of_week that takes the Julian Date itself modulo 7
day_of_week_from_noon(d) == CMod(FxTrunc(julian_date(d)), 7) + 1

day_of_week(d) == CMod(FxTrunc(FxAdd(julian_date(d), FxHalf)), 7) + 1

\* day_of_year with l as its second comment has it: 2 for a leap year
day_of_year_swapped(d) ==
    LET l == IF is_leap_year(d.year) # 0 THEN 2 ELSE 1
    IN  CDiv(275 * d.month, 9) - l * CDiv(d.month + 9, 12) + FxTrunc(d.day) - 30

day_of_year(d) ==
    LET l == IF is_leap_year(d.year) # 0 THEN 1 ELSE 2
    IN  CDiv(275 * d.month, 9) - l * CDiv(d.month + 9, 12) + FxTrunc(d.day) - 30

\* the auxiliary sum f of date_of_easter for the Gregorian calendar
easter_gregorian(y) ==
    LET a == CDiv(y, 100)
        b == CDiv(a - CDiv(a + 8, 25) + 1, 3)
        c == CMod(19 * CMod(y, 19) + a - CDiv(a, 4) - b + 15, 30)
        d == CMod(32 + 2 * CMod(a, 4) + 2 * CDiv(CMod(y, 100), 4) - c
                      - CMod(CMod(y, 100), 4), 7)
        e == CDiv(CMod(y, 19) + 11 * c + 22 * d, 451)
    IN  c + d - 7 * e + 114

\* the auxiliary sum f of date_of_easter for the Julian calendar
easter_julian(y) ==
    LET a == CMod(19 * CMod(y, 19) + 15, 30)
        b == CMod(2 * CMod(y, 4) + 4 * CMod(y, 7) - a + 34, 7)
    IN  a + b + 114

\* date_of_easter with the formulas of the Gregorian calendar for every year
date_of_easter_gregorian(y) ==
    LET f == easter_gregorian(y)
    IN  date(FxInt(CMod(f, 31) + 1), CDiv(f, 31), y)

date_of_easter(y) ==
    LET f == IF y > GREGORIAN_START_DATE.year
             THEN easter_gregorian(y)
             ELSE easter_julian(y)
    IN  date(FxInt(CMod(f, 31) + 1), CDiv(f, 31), y)

(***************************************************************************)
(* calendar.c: dynamical_time_difference.  Its value is an exact rational. *)
(***************************************************************************)
Rational(num, den) == [num |-> num, den |-> den]

linear_interpolate(x, x0, x1, y0, y1) ==
    Rational(y0 * x.den * (x1 - x0) + (x.num - x0 * x.den) * (y1 - y0),
             x.den * (x1 - x0))

\* deltat_...[k]: a row of the table, or whatever lies behind the array when
\* k is not an index of it
table_row(table, k, beyond) ==
    IF k + 1 \in DOMAIN table THEN table[k + 1] ELSE beyond

\* deltat_lookup that leaves the first and the last year of the tables out
deltat_lookup_exclusive(d) ==
    IF d.year <= DELTA_T_TABLE_START_YEAR \/ d.year >= DELTA_T_TABLE_END_YEAR
    THEN [table |-> "none", i |-> 0]
    ELSE IF d.year < TELESCOPE_ERA_START_YEAR
         THEN [table |-> "pre_telescope",
               i |-> CDiv(d.year - PRE_TELESCOPE_ERA_START_YEAR,
                          PRE_TELESCOPE_ERA_YEAR_INTERVAL)]
         ELSE [table |-> "telescope",
               i |-> CDiv(d.year - TELESCOPE_ERA_START_YEAR,
                          TELESCOPE_ERA_YEAR_INTERVAL)]

\* the branch dynamical_time_difference takes and the row index i it computes
deltat_lookup(d) ==
    IF d.year < DELTA_T_TABLE_START_YEAR \/ d.year > DELTA_T_TABLE_END_YEAR
    THEN [table |-> "none", i |-> 0]
    ELSE IF d.year < TELESCOPE_ERA_START_YEAR
         THEN [table |-> "pre_telescope",
               i |-> CDiv(d.year - PRE_TELESCOPE_ERA_START_YEAR,
                          PRE_TELESCOPE_ERA_YEAR_INTERVAL)]
         ELSE [table |-> "telescope",
               i |-> CDiv(d.year - TELESCOPE_ERA_START_YEAR,
                          TELESCOPE_ERA_YEAR_INTERVAL)]

\* -20.0 + 32.0 * (year - 1820.0) * (year - 1820.0) / 10000.0
deltat_extrapolate(year) ==
    Rational(32 * (year - 1820) * (year - 1820) - 200000, 10000)

\* beyond: the three ints read behind the last row of a table
dynamical_time_difference(d, beyond) ==
    LET look  == deltat_lookup(d)
        table == IF look.table = "pre_telescope" THEN deltat.pre_telescope_era
                 ELSE deltat.telescope_era
        \* dy = d.year + day_of_year(d) / (365.0 + is_leap_year(d.year))
        len   == 365 + is_leap_year(d.year)
        dy    == Rational(d.year * len + day_of_year(d), len)
        r0    == table_row(table, look.i, beyond)
        r1    == table_row(table, look.i + 1, beyond)
    IN  IF look.table = "none" THEN deltat_extrapolate(d.year)
        ELSE linear_interpolate(dy, r0[1], r1[1], r0[2], r1[2])

\* the value of a local or a result that is not assigned yet
None == [none |-> TRUE]

(***************************************************************************)
(* calendar.c: julian_ephemeris_date.                                      *)
(***************************************************************************)
RECURSIVE FractionBits(_, _, _)
\* the first n binary digits q of r / den (0 <= r < den) and the remainder
FractionBits(r, den, n) ==
    IF n = 0 THEN [q |-> 0, r |-> r]
    ELSE LET prev == FractionBits(r, den, n - 1)
             t    == 2 * prev.r
         IN  IF t >= den THEN [q |-> 2 * prev.q + 1, r |-> t - den]
             ELSE [q |-> 2 * prev.q, r |-> t]

\* the double that holds dt seconds
seconds(dt) ==
    LET hi == FractionBits(dt.num % dt.den, dt.den, 26)
        lo == FractionBits(hi.r, dt.den, 26)
    IN  Fx(dt.num \div dt.den, hi.q, lo.q)

\* dt /= 86400.0, where 86400 = 2^7 * 675
seconds_to_days(dt) ==
    LET den == dt.den * 675
        n   == dt.num \div den
        hi  == FractionBits(dt.num % den, den, 19)
        lo  == FractionBits(hi.r, den, 26)
    IN  Fx(n \div 2^7, (n % 2^7) * 2^19 + hi.q, lo.q)

julian_ephemeris_date(d, beyond) ==
    RoundToDouble(FxAdd(julian_date(d),
                        seconds_to_days(dynamical_time_difference(d, beyond))))

(***************************************************************************)
(* sun.c: equinox and solstice.  The apparent position of the Sun is       *)
(* external: each pass of the solver draws its correction c from           *)
(* SolverCorrections.                                                      *)
(***************************************************************************)
VERNAL_EQUINOX == 0

SUMMER_SOLSTICE == 1

AUTUMNAL_EQUINOX == 2

WINTER_SOLSTICE == 3

\* const double p = 10e-7 of equinox_solstice, cut to 52 fractional bits
precision == Fx(0, 67, 7305739)

\* the locals of equinox_solstice before its do-while loop
equinox_solstice_start(y, k, beyond) ==
    LET d == date(FxInt(21), (k + 1) * 3, y)
    IN  [d |-> d, jde |-> julian_ephemeris_date(d, beyond), c |-> None]

\* one pass of the do-while loop, c being 58.0 * sin(k * M_PI / 2 - sp.longitude)
equinox_solstice_pass(loc, c, beyond) ==
    LET jde == RoundToDouble(FxAdd(loc.jde, c))
        dt  == seconds(dynamical_time_difference(loc.d, beyond))
    IN  [d |-> calendar_date(RoundToDouble(FxSub(jde, dt))), jde |-> jde, c |-> c]

\* while (c > p)
equinox_solstice_continues(loc) == FxLess(precision, loc.c)

\* the invalid date structure of equinox and solstice
invalid_date(y) == date(FxInt(-1), UNKNOWN_MONTH, y)

\* the test of equinox, taking every season for an equinox
is_equinox_or_solstice(e) == e \in VERNAL_EQUINOX..WINTER_SOLSTICE

\* e == VERNAL_EQUINOX || e == AUTUMNAL_EQUINOX
is_equinox(e) == e = VERNAL_EQUINOX \/ e = AUTUMNAL_EQUINOX

\* s == SUMMER_SOLSTICE || s == WINTER_SOLSTICE
is_solstice(s) == s = SUMMER_SOLSTICE \/ s = WINTER_SOLSTICE

(***************************************************************************)
(* coordinates.h: angles, in arcseconds.                                   *)
(***************************************************************************)
\* pi in arcseconds
PI_ARCSEC == 648000

TWO_PI == 2 * PI_ARCSEC

ecliptic_point(longitude, latitude) ==
    [longitude |-> longitude, latitude |-> latitude]

equatorial_point(right_ascension, declination) ==
    [right_ascension |-> right_ascension, declination |-> declination]

(***************************************************************************)
(* coordinates.c: the conversions between ecliptic and equatorial          *)
(* coordinates, in exact arithmetic.  A double that holds the sine, the    *)
(* cosine or the tangent of an angle is a rational in lowest terms.  An    *)
(* angle that atan2 returns (a longitude, a right ascension) is the        *)
(* direction [x, y] it points to, in lowest terms, so that two such angles *)
(* are equal modulo 2 pi when they are the same record.  An angle that     *)
(* asin returns (a latitude, a declination; an obliquity is written the    *)
(* same way) is its sine, an angle of [-pi/2, pi/2].  The arguments of the *)
(* conversions are drawn from the angles whose sines and cosines the       *)
(* conversions use are all rational.                                       *)
(***************************************************************************)
RECURSIVE Gcd(_, _)
Gcd(a, b) == IF b = 0 THEN a ELSE Gcd(b, a % b)

\* num / den in lowest terms, den # 0
Reduce(num, den) ==
    LET g == Gcd(Abs(num), Abs(den))
        s == IF den < 0 THEN -1 ELSE 1
    IN  Rational((s * num) \div g, (s * den) \div g)

RAdd(p, q) == Reduce(p.num * q.den + q.num * p.den, p.den * q.den)

RSub(p, q) == Reduce(p.num * q.den - q.num * p.den, p.den * q.den)

RMul(p, q) == Reduce(p.num * q.num, p.den * q.den)

RDiv(p, q) == Reduce(p.num * q.den, p.den * q.num)

\* the integers the square roots of the conversions are sought among
Roots == 0..1024

IsSquare(n) == \E r \in Roots : r * r = n

ISqrt(n) == CHOOSE r \in Roots : r * r = n

\* sqrt(q) of a rational that is a square
RSqrt(q) == Rational(ISqrt(q.num), ISqrt(q.den))

\* the angle that points to (x, y), x and y integers not both 0
direction(x, y) ==
    LET g == Gcd(Abs(x), Abs(y))
    IN  [x |-> x \div g, y |-> y \div g]

\* the angle of [-pi/2, pi/2] whose sine is num / den
elevation(num, den) == [sine |-> Reduce(num, den)]

is_direction(a) == "x" \in DOMAIN a

sin(a) ==
    IF is_direction(a) THEN Reduce(a.y, ISqrt(a.x * a.x + a.y * a.y))
    ELSE a.sine

cos(a) ==
    IF is_direction(a) THEN Reduce(a.x, ISqrt(a.x * a.x + a.y * a.y))
    ELSE RSqrt(RSub(Rational(1, 1), RMul(a.sine, a.sine)))

tan(a) == RDiv(sin(a), cos(a))

\* atan2(0, 0) is 0
atan2(y, x) ==
    IF x.num = 0 /\ y.num = 0 THEN direction(1, 0)
    ELSE direction(x.num * y.den, y.num * x.den)

asin(x) == [sine |-> x]

equatorial_to_ecliptic(eqp, e) ==
    ecliptic_point(
        atan2(RAdd(RMul(sin(eqp.right_ascension), cos(e)),
                   RMul(tan(eqp.declination), sin(e))),
              cos(eqp.right_ascension)),
        asin(RSub(RMul(sin(eqp.right_ascension), cos(e)),
                  RMul(RMul(cos(eqp.declination), sin(e)),
                       sin(eqp.right_ascension)))))

ecliptic_to_equatorial(ecp, e) ==
    equatorial_point(
        atan2(RSub(RMul(sin(ecp.longitude), cos(e)),
                   RMul(tan(ecp.latitude), sin(e))),
              cos(ecp.longitude)),
        asin(RAdd(RMul(sin(ecp.latitude), cos(e)),
                  RMul(RMul(cos(ecp.latitude), sin(e)),
                       sin(ecp.longitude)))))

(***************************************************************************)
(* earth.c: aberration.  Angles are in arcseconds, where the conversion    *)
(* factor M_PI / 648000 is PI_ARCSEC / 648000.  The position of the Sun,   *)
(* the orbital elements and the trigonometry are external: a call is given *)
(* f, the cosines and sines it uses in units of 1/5 and the eccentricity   *)
(* of the orbit in units of 10^-4.                                         *)
(***************************************************************************)
\* 20.49552 arcseconds, in the whole arcseconds of the model
ABERRATION_CONSTANT == 20

\* arcseconds in a radian
RADIAN == 206265

\* k0: the value the local k holds when k *= M_PI / 648000.0 reads it
aberration(d, ep, k0, f) ==
    LET k  == k0 * (PI_ARCSEC \div 648000)
        \* e * k, k being a number of radians
        ek == CDiv(f.e * k, 10000 * RADIAN)
    IN  ecliptic_point(CDiv(-k * (f.cs - ek * f.cp), f.cb),
                       CDiv(-k * f.sb * (10000 * f.ss - f.e * f.sp), 25 * 10000))

(***************************************************************************)
(* earth.c: nutation.  The Delaunay arguments and the trigonometry are     *)
(* external: a call is given n, the sum of its series in the units of the  *)
(* table of coefficients.  The result, a number of radians, is held in     *)
(* units of 10^-5 arcsecond.                                               *)
(***************************************************************************)
\* n /= 36000000.0; n *= M_PI / 180.0
nutation_to_radians(n) ==
    (n * (PI_ARCSEC \div 180)) \div (36000000 \div 100000)

nutation_in_longitude(d, n) == nutation_to_radians(n)

nutation_in_obliquity(d, n) == nutation_to_radians(n)

(***************************************************************************)
(* planets.c.  The planetary theory and the trigonometry applied to its    *)
(* output are external: a call of the theory yields any point of           *)
(* TheoryPoints, the geocentric position of the planet that atan2 yields   *)
(* (longitude and latitude in arcseconds, distance in units of 10^-4 AU).  *)
(* A double longitude is a whole number of arcseconds, less, when below is *)
(* 1, a quantity under half an ulp of 2 pi.  Time is held in units of      *)
(* 10^-3 Julian century or millennium, the constants of the frame          *)
(* correction in units of 10^-5 arcsecond.                                 *)
(***************************************************************************)
\* Julian Date of the beginning of the epoch J2000
J2000 == FxInt(2451545)

DAYS_IN_JULIAN_CENTURY == 36525

DAYS_IN_JULIAN_MILLENIUM == 365250

\* t = (julian_ephemeris_date(d) - J2000) / span, in units of 10^-3
time_since_J2000(d, beyond, span) ==
    CDiv(1000 * FxTrunc(FxSub(julian_ephemeris_date(d, beyond), J2000)), span)

\* lp = longitude - 1.397 * t * M_PI / 180.0 - 0.00031 * t * t * M_PI / 180.0,
\* t in units of 10^-3
auxiliary_longitude(longitude, t) ==
    longitude
        - CDiv(CDiv(1397 * (PI_ARCSEC \div 180), 1000) * t, 1000)
        - CDiv(CDiv(CDiv(31 * (PI_ARCSEC \div 180), 100) * t, 1000) * t, 10^6)

\* cos and sin of libm in units of 1/5, of an angle that is within a few
\* degrees of a multiple of a right angle
quadrant(a) == CMod(CDiv(CMod(a, TWO_PI) + TWO_PI + PI_ARCSEC \div 4, PI_ARCSEC \div 2), 4)

cos_fifths(a) ==
    CASE quadrant(a) = 0 -> 5
      [] quadrant(a) = 1 -> 0
      [] quadrant(a) = 2 -> -5
      [] quadrant(a) = 3 -> 0

sin_fifths(a) ==
    CASE quadrant(a) = 0 -> 0
      [] quadrant(a) = 1 -> 5
      [] quadrant(a) = 2 -> 0
      [] quadrant(a) = 3 -> -5

\* tan of libm in units of 1/5, of an angle of a few arcseconds
tan_fifths(a) == CDiv(5 * a, RADIAN)

\* a number of 10^-5 arcsecond in the whole arcseconds of the model
whole_arcseconds(x) ==
    CDiv(x + (IF x < 0 THEN -50000 ELSE 50000), 100000)

\* the correction to the frame FK5 of planets.c, in units of 10^-5
\* arcsecond: (-0.09033 + 0.03916 * (cos(lp) + sin(lp) * tan(latitude)))
\* * M_PI / 64800.0 and (0.03916 * (cos(lp) - sin(lp))) * M_PI / 64800.0
planet_frame_correction(lp, latitude) ==
    ecliptic_point(
        CDiv((-9033 * 25
              + 3916 * (5 * cos_fifths(lp) + sin_fifths(lp) * tan_fifths(latitude)))
             * (PI_ARCSEC \div 64800), 25),
        CDiv(3916 * (cos_fifths(lp) - sin_fifths(lp)) * (PI_ARCSEC \div 64800), 5))

\* ep after the correction to the frame FK5, lp being the auxiliary longitude
corrected_to_FK5(ep, lp) ==
    [ep EXCEPT
        !.longitude = @ + whole_arcseconds(planet_frame_correction(lp, ep.latitude).longitude),
        !.latitude = @ + whole_arcseconds(planet_frame_correction(lp, ep.latitude).latitude)]

\* t of planet_true_position
planet_true_time(d, beyond) ==
    time_since_J2000(d, beyond, DAYS_IN_JULIAN_MILLENIUM)

\* t of planet_apparent_position
planet_apparent_time(d, beyond) ==
    time_since_J2000(d, beyond, DAYS_IN_JULIAN_CENTURY)

\* Planet of vsop87d.h: Mercury is 0, Venus 1, ..., Neptune 7
EARTH == 2

NEPTUNE == 7

Planet == 0..NEPTUNE

\* lambda = fmod(lambda, 2 pi); if (lambda < 0) lambda += 2 pi
\* fmod is exact; the sum of 2 pi and a negative quantity under half an ulp
\* of 2 pi is the double 2 pi
shift_longitude(longitude, below) ==
    LET m == CMod(longitude, TWO_PI)
    IN  IF m < 0 \/ (m = 0 /\ below = 1) THEN m + TWO_PI ELSE m

\* planet_true_position from the correction to the frame FK5 on: geo is
\* the position after that correction
planet_true_position(d, p, geo) ==
    IF p # EARTH
    THEN ecliptic_point(shift_longitude(geo.longitude, geo.below), geo.latitude)
    ELSE ecliptic_point(0, 0)

\* planet_distance_to_earth without the test for the Earth
planet_distance_to_earth_computed(d, p, geo) == geo.distance

planet_distance_to_earth(d, p, geo) ==
    IF p # EARTH THEN geo.distance ELSE 0

\* light-time in units of 10^-14 day: tau = 0.0057755183 * ds
LIGHT_TIME_FACTOR == 57755183

light_time(ds) == LIGHT_TIME_FACTOR * ds

\* const double pr = 10e-7, in units of 10^-14 day
pr == 10 * 10^7

\* the state of planet_apparent_position on entry to its while loop
light_time_start == [lt0 |-> 0, lt1 |-> 0 + 2 * pr]

\* while (fabs(lt0 - lt1) > pr)
light_time_continues(a, b) == Abs(a - b) > pr

\* planet_apparent_position adding the nutation to the shifted longitude
planet_apparent_position_shifted_first(d, p, geo, da, dpsi) ==
    IF p # EARTH
    THEN ecliptic_point(
             shift_longitude(geo.longitude + da.longitude, geo.below) + dpsi,
             geo.latitude + da.latitude)
    ELSE ecliptic_point(0, 0)

\* planet_apparent_position from the correction to the frame FK5 on: geo is
\* the position after that correction, da the correction for aberration and
\* dpsi the nutation in longitude; or its else branch
planet_apparent_position(d, p, geo, da, dpsi) ==
    IF p # EARTH
    THEN ecliptic_point(
             shift_longitude((geo.longitude + da.longitude) + dpsi, geo.below),
             geo.latitude + da.latitude)
    ELSE ecliptic_point(0, 0)

\* The double results of the phase functions are held in units of 10^-6
\* (radians, fractions of the disk, magnitudes).
Micro == 10^6

\* i = -1; k = -1
ERROR_VALUE == -1 * Micro

\* i: acos((pds * pds + pde * pde - eds * eds) / (2.0 * pds * pde))
planet_phase_angle(d, p, i) ==
    IF p # EARTH THEN i ELSE ERROR_VALUE

\* the values acos can take that the model samples: 0, pi/3, pi/2, 2 pi/3, pi
PhaseAngles == {0, 1047198, 1570796, 2094395, 3141593}

\* cos of libm on the sampled angles
cosine(i) ==
    CASE i = 0 -> Micro
      [] i = 1047198 -> Micro \div 2
      [] i = 1570796 -> 0
      [] i = 2094395 -> -(Micro \div 2)
      [] i = 3141593 -> -Micro

planet_disk_illuminated_fraction(d, p, i) ==
    IF p # EARTH
    THEN (Micro + cosine(planet_phase_angle(d, p, i))) \div 2
    ELSE ERROR_VALUE

\* computed: the value the switch assigns to m for the planet p; m: the value
\* the local m holds before anything is assigned to it
planet_apparent_magnitude(d, p, computed, m) ==
    IF p # EARTH THEN computed ELSE m

(***************************************************************************)
(* orbital.c: the series of the mean orbital elements.  The values of the  *)
(* coefficients are data external to the model: a table has its declared   *)
(* size and whole numbers for entries, and the series is evaluated at      *)
(* whole numbers of Julian millennia.  The elements that the trigonometry  *)
(* yields from k, h, q and p are left out.                                 *)
(***************************************************************************)
TOTAL_ORBITAL_ELEMENTS == 6

PLANET_MEAN_LONGITUDE == 0

SEMI_MAJOR_AXIS == 1

\* the indexes of the channels a and lambda in ve
A == 0

L == 1

TOTAL_ORBITAL_COEFFICIENTS_OF_J2000 == 5

TOTAL_ORBITAL_COEFFICIENTS_OF_DATE == 8

\* a table of TOTAL_ORBITAL_ELEMENTS * m coefficients, indexed from 0
orbital_coefficients(p, m) ==
    [n \in 0..(TOTAL_ORBITAL_ELEMENTS * m - 1) |-> ((7 * n + 3 * p + m) % 13) - 6]

orbital_coefficients_of_J2000(p) ==
    orbital_coefficients(p, TOTAL_ORBITAL_COEFFICIENTS_OF_J2000)

orbital_coefficients_of_date(p) ==
    orbital_coefficients(p, TOTAL_ORBITAL_COEFFICIENTS_OF_DATE)

\* the index of the term j of the channel i, laid out by term
coefficient_index_by_term(i, j, m) == j * TOTAL_ORBITAL_ELEMENTS + i

\* coefficients[i * m + j]
coefficient_index(i, j, m) == i * m + j

\* for (j = 0, ve[i] = 0.0, tn = 1.0; j < m; j++, tn *= t)
\*     ve[i] += coefficients[i * m + j] * tn;
\* from the pass j on
RECURSIVE series(_, _, _, _, _, _)
series(t, coefficients, m, i, j, tn) ==
    IF j < m
    THEN coefficients[coefficient_index(i, j, m)] * tn
             + series(t, coefficients, m, i, j + 1, tn * t)
    ELSE 0

\* ve, the elements lambda and a, and the indexes of the coefficients read
compute_orbital_elements_series(t, coefficients, m) ==
    LET ve == [i \in 0..(TOTAL_ORBITAL_ELEMENTS - 1) |->
                  series(t, coefficients, m, i, 0, 1)]
    IN  [ve |-> ve,
         elements |-> [e \in {PLANET_MEAN_LONGITUDE, SEMI_MAJOR_AXIS} |->
                          IF e = PLANET_MEAN_LONGITUDE THEN ve[L] ELSE ve[A]],
         reads |-> {coefficient_index(i, j, m) :
                       i \in 0..(TOTAL_ORBITAL_ELEMENTS - 1), j \in 0..(m - 1)}]

compute_orbital_elements_of_J2000(t, p) ==
    compute_orbital_elements_series(t, orbital_coefficients_of_J2000(p),
                                    TOTAL_ORBITAL_COEFFICIENTS_OF_J2000)

compute_orbital_elements_of_date(t, p) ==
    compute_orbital_elements_series(t, orbital_coefficients_of_date(p),
                                    TOTAL_ORBITAL_COEFFICIENTS_OF_DATE)

(***************************************************************************)
(* sun.c, moon.c: positions.  The theories are external: a call is given   *)
(* sp, the heliocentric position of the Earth (in arcseconds and units of  *)
(* 10^-4 AU) or the geocentric position of the Moon (in the arcseconds of  *)
(* the lunar theory), and dpsi, the nutation in longitude.                 *)
(***************************************************************************)
\* whether the double shift_longitude yields lies below its whole number of
\* arcseconds: a sum with 2 pi is rounded
shifted_below(longitude, below) ==
    IF CMod(longitude, TWO_PI) > 0 THEN below ELSE 0

\* t of sun_true_position, sun_apparent_position and moon_true_position
sun_time(d, beyond) ==
    time_since_J2000(d, beyond, DAYS_IN_JULIAN_CENTURY)

\* the correction to the frame FK5 of sun.c, in units of 10^-5 arcsecond:
\* -0.09033 * M_PI / 180.0 / 3600.0 and
\* 0.03916 * (cos(lp) - sin(lp)) * M_PI / 180.0 / 3600.0
sun_frame_correction(lp) ==
    ecliptic_point(
        -9033 * ((PI_ARCSEC \div 180) \div 3600),
        CDiv(3916 * (cos_fifths(lp) - sin_fifths(lp))
                 * ((PI_ARCSEC \div 180) \div 3600), 5))

\* sp after the correction to the frame FK5
sun_corrected_to_FK5(sp, lp) ==
    [sp EXCEPT
        !.longitude = @ + whole_arcseconds(sun_frame_correction(lp).longitude),
        !.latitude = @ + whole_arcseconds(sun_frame_correction(lp).latitude)]

\* sun_true_position from the correction to the frame FK5 on
sun_true_position(d, sp) ==
    ecliptic_point(shift_longitude(sp.longitude + PI_ARCSEC, sp.below),
                   -sp.latitude)

\* sun_apparent_position from the correction to the frame FK5 on
sun_apparent_position(d, sp, dpsi) ==
    ecliptic_point(
        shift_longitude(
            ((sp.longitude + PI_ARCSEC) + dpsi)
                - CDiv(ABERRATION_CONSTANT * (PI_ARCSEC \div 648000) * 10000,
                       sp.distance),
            sp.below),
        -sp.latitude)

moon_true_position(d, sp) ==
    ecliptic_point(
        shift_longitude(sp.longitude * (PI_ARCSEC \div 648000), sp.below),
        sp.latitude * (PI_ARCSEC \div 648000))

moon_apparent_position(d, sp, dpsi) ==
    LET ep == moon_true_position(d, sp)
    IN  ecliptic_point(
            shift_longitude(ep.longitude + dpsi,
                            shifted_below(sp.longitude * (PI_ARCSEC \div 648000),
                                          sp.below)),
            ep.latitude)

(***************************************************************************)
(* geoobserver.c: rising and setting.  Times are held in units of 10^-6    *)
(* hour, the argument of fmod in units of 10^-6 day.  The trigonometry is  *)
(* external: a call is given cosh0 (in units of 10^-6) and the time of     *)
(* transit before it is fitted into a day.                                 *)
(***************************************************************************)
\* return -1
NEVER == -1 * Micro

\* m = fmod(m, 1.0); if (m < 0.0) m += 1.0; m *= 24.0
transit(m) ==
    LET f == CMod(m, Micro)
    IN  24 * (IF f < 0 THEN f + Micro ELSE f)

\* 12 * acos(cosh0) / M_PI for the sampled values of cosh0
hour_angle(cosh0) ==
    CASE cosh0 = Micro -> 0
      [] cosh0 = Micro \div 2 -> 4 * Micro
      [] cosh0 = 0 -> 6 * Micro
      [] cosh0 = -(Micro \div 2) -> 8 * Micro
      [] cosh0 = -Micro -> 12 * Micro

\* rising that does not fit its result into a day
rising_unfitted(cosh0, m) ==
    IF Abs(cosh0) > 1 * Micro THEN NEVER
    ELSE transit(m) - hour_angle(cosh0)

rising(cosh0, m) ==
    IF Abs(cosh0) > 1 * Micro THEN NEVER
    ELSE LET t == transit(m) - hour_angle(cosh0)
         IN  IF t < 0 THEN t + 24 * Micro ELSE t

setting(cosh0, m) ==
    IF Abs(cosh0) > 1 * Micro THEN NEVER
    ELSE LET t == transit(m) + hour_angle(cosh0)
         IN  IF t > 24 * Micro THEN t - 24 * Micro ELSE t

(***************************************************************************)
(* Inputs.                                                                 *)
(***************************************************************************)
MaxDistance == 3

MaxIter == 4

\* the last year of date_of_easter
MaxEasterYear == 2500

EasterYears == 1..MaxEasterYear

PivotYears == {-4712, -1000, 0, 1500, 1582, 1700, 1900, 2000, 2020}

Years ==
    {y \in UNION {(q - YearSpan)..(q + YearSpan) : q \in PivotYears} : y >= -4713}

\* times of day: the multiples of 2^-TickBits of a day, each held exactly by
\* a double day number
Fractions ==
    {[h |-> k * 2^(26 - TickBits), l |-> 0] : k \in 0..(2^TickBits - 1)}

Days == {Fx(n, f.h, f.l) : n \in 0..32, f \in Fractions}

Dates == {date(day, month, year) : day \in Days, month \in 0..13, year \in Years}

MonthDates == {d \in Dates : d.month \in JANUARY..DECEMBER}

\* what may lie behind the last row of a delta T table
BeyondRows == {<<0, 0, 0>>, <<31, 28, 31>>, <<2020, 71, 4>>}

EphemerisDates ==
    {date(Fx(1, HalfLimb, 0), JANUARY, 2000), date(FxInt(4), OCTOBER, 1582)}

\* a longitude that lies below its whole number of arcseconds is taken
\* where the correction to the frame FK5 brings it to 0
TheoryPoints ==
    {tp \in [longitude : {-PI_ARCSEC, -1, 0, 1, PI_ARCSEC}, latitude : {-1, 0},
             distance : 0..MaxDistance, below : {0, 1}] :
        /\ tp.below = 1 <=> tp.longitude = 1
        /\ tp.below = 1 => tp.latitude = 0}

\* sums of the series of nutation in longitude, in the units of the table
NutationSumsInLongitude == {-171996, -13187, 0, 2062, 170000}

\* sums of the series of nutation in obliquity
NutationSumsInObliquity == {-92025, -895, 0, 5736, 92025}

\* times of the series of the orbital elements, in Julian millennia
SeriesTimes == -2..2

\* heliocentric positions of the Earth
SunTheoryPoints ==
    {[longitude |-> lon, latitude |-> lat, distance |-> ds, below |-> b] :
        lon \in {-3 * PI_ARCSEC, -PI_ARCSEC, -PI_ARCSEC + 20, 0, PI_ARCSEC, 7 * PI_ARCSEC + 3},
        lat \in {-1, 0}, ds \in {9833, 10000, 10167}, b \in {0, 1}}

\* geocentric positions of the Moon
MoonTheoryPoints ==
    {[longitude |-> lon, latitude |-> lat, below |-> b] :
        lon \in {-2 * TWO_PI, -PI_ARCSEC, -17, 0, 17, PI_ARCSEC, 5 * TWO_PI + 3},
        lat \in {-18000, 0, 18000}, b \in {0, 1}}

\* what the local k of aberration may hold before anything is assigned to it
IndeterminateK == {0, ABERRATION_CONSTANT, 1000}

\* cs, ss: cos and sin of stp.longitude - ep.longitude; cp, sp: of
\* p - ep.longitude; cb, sb: of ep.latitude
AberrationGeometry ==
    {[cs |-> a[1], ss |-> a[2], cp |-> b[1], sp |-> b[2], cb |-> c[1], sb |-> c[2],
      e |-> 167] :
        a \in {<<5, 0>>, <<-3, 4>>}, b \in {<<0, -5>>, <<4, 3>>},
        c \in {<<5, 0>>, <<4, -3>>}}

Nutations == {-17, 0, 17}

\* apparent magnitudes the formulas of planet_apparent_magnitude yield
Magnitudes == {-4400000, -420000, 5500000}

\* what a double that was never assigned may hold
Indeterminate == {ERROR_VALUE, 0, 12345}

\* values of cosh0, the body rising and setting or not
CosH0 ==
    {-2 * Micro, -Micro - 1, -Micro, -(Micro \div 2), 0, Micro \div 2, Micro,
     Micro + 1, 2 * Micro}

\* times of transit in units of 10^-6 day, before fmod
TransitTimes ==
    {-1500000, -Micro, -500000, -1, 0, 1, 250000, 500000, 999999, Micro, 1750000}

\* years and second arguments of equinox and solstice
SolverYears == {1582, 2000}

Seasons == (VERNAL_EQUINOX - 1)..(WINTER_SOLSTICE + 1)

\* corrections to the Julian Ephemeris Date, in days
SolverCorrections ==
    {FxInt(2), Fx(0, 68, 0), Fx(0, 67, 0), FxInt(0), Fx(-1, Limb - 68, 0), FxInt(-1)}

\* longitudes: the multiples of a right angle and the angles of the
\* triangle of sides 3, 4 and 5 in every quadrant
Longitudes ==
    {direction(v[1], v[2]) :
        v \in {w \in (-5..5) \X (-5..5) : w[1] * w[1] + w[2] * w[2] = 25}}

\* latitudes, the poles left out: the tangent of the latitude is finite
Latitudes ==
    {elevation(n, 5) : n \in {-4, -3, 0, 3, 4}}

\* obliquities of [0, pi/2)
Obliquities == {elevation(n, 5) : n \in {0, 3, 4}}

\* the squares of the cosines that equatorial_to_ecliptic takes of the
\* result of ecliptic_to_equatorial(ecp, e)
cosines_squared(ecp, e) ==
    LET y == RSub(RMul(sin(ecp.longitude), cos(e)),
                  RMul(tan(ecp.latitude), sin(e)))
        x == cos(ecp.longitude)
        a == atan2(y, x)
        z == RAdd(RMul(sin(ecp.latitude), cos(e)),
                  RMul(RMul(cos(ecp.latitude), sin(e)), sin(ecp.longitude)))
    IN  [ra |-> a.x * a.x + a.y * a.y,
         dec |-> RSub(Rational(1, 1), RMul(z, z))]

\* the ecliptic points and obliquities of the conversions: those whose
\* equatorial point has a rational cosine of right ascension and a rational
\* cosine of declination that is not 0
ConversionInputs ==
    {cv \in [ecp : {ecliptic_point(l, b) : l \in Longitudes, b \in Latitudes},
             e : Obliquities] :
        LET c2 == cosines_squared(cv.ecp, cv.e)
        IN  /\ IsSquare(c2.ra)
            /\ c2.dec.num # 0
            /\ IsSquare(c2.dec.num)
            /\ IsSquare(c2.dec.den)}

\* the callers that run concurrently
Threads == {1, 2}

\* corrections to the Julian Ephemeris Date of a concurrent call, in days
ThreadCorrections == {FxInt(2), Fx(0, 67, 0), FxInt(-1)}

\* dates of the concurrent calls of dynamical_time_difference
ThreadDates == {date(FxInt(1), 1, 1650), date(FxInt(1), 7, 2000)}

(***************************************************************************)
(* The calls.                                                              *)
(***************************************************************************)
\* the initializers of the static arrays of calendar.c
deltat_initializers ==
    [pre_telescope_era |-> deltat_pre_telescope_era,
     telescope_era |-> deltat_telescope_era]

\* a caller that is in no call; externals is the sequence of the values the
\* call has got from outside the model
idle_thread ==
    [op |-> "idle", arg |-> None, ret |-> None, pc |-> "idle", iter |-> 0,
     locals |-> None, externals |-> <<>>]

Init ==
    /\ op = "idle"
    /\ arg = None
    /\ ret = None
    /\ pc = "idle"
    /\ lt0 = 0
    /\ lt1 = 0
    /\ iter = 0
    /\ locals = None
    /\ deltat = deltat_initializers
    /\ threads = [t \in Threads |-> idle_thread]

Return(name, a, r) ==
    /\ op' = name
    /\ arg' = a
    /\ ret' = r
    /\ pc' = "done"
    /\ UNCHANGED <<lt0, lt1, iter, locals, deltat, threads>>

\* the return of a call whose result is a number
ReturnValue(name, a, r) == Return(name, a, [value |-> r])

IsDateValid ==
    /\ pc = "idle"
    /\ \E d \in Dates : ReturnValue("is_date_valid", d, is_date_valid(d))

IsLeapYear ==
    /\ pc = "idle"
    /\ \E y \in Years : ReturnValue("is_leap_year", [year |-> y], is_leap_year(y))

DayOfWeek ==
    /\ pc = "idle"
    /\ \E d \in MonthDates : ReturnValue("day_of_week", d, day_of_week(d))

DayOfYear ==
    /\ pc = "idle"
    /\ \E d \in MonthDates : ReturnValue("day_of_year", d, day_of_year(d))

JulianDate ==
    /\ pc = "idle"
    /\ \E d \in MonthDates : Return("julian_date", d, julian_date(d))

\* calendar_date applied to the Julian Date of a date
CalendarDate ==
    /\ pc = "idle"
    /\ \E d \in MonthDates :
        Return("calendar_date", d, calendar_date(julian_date(d)))

DateOfEaster ==
    /\ pc = "idle"
    /\ \E y \in EasterYears : Return("date_of_easter", [y |-> y], date_of_easter(y))

DynamicalTimeDifference ==
    /\ pc = "idle"
    /\ \E d \in MonthDates, beyond \in BeyondRows :
        Return("dynamical_time_difference", d,
               [dt |-> dynamical_time_difference(d, beyond),
                table |-> deltat_lookup(d).table,
                i |-> deltat_lookup(d).i])

\* locals records the position atan2 yields and the auxiliary longitude
PlanetTruePosition ==
    /\ pc = "idle"
    /\ \E d \in EphemerisDates, beyond \in BeyondRows :
        \E t \in {planet_true_time(d, beyond)}, p \in Planet, geo \in TheoryPoints :
            LET lp == auxiliary_longitude(geo.longitude, t)
            IN  /\ op' = "planet_true_position"
                /\ arg' = [d |-> d, p |-> p]
                /\ ret' = planet_true_position(d, p, corrected_to_FK5(geo, lp))
                /\ locals' = IF p # EARTH
                              THEN [t |-> t, geo |-> geo, lp |-> lp]
                              ELSE None
                /\ pc' = "done"
    /\ UNCHANGED <<lt0, lt1, iter, deltat, threads>>

PlanetDistanceToEarth ==
    /\ pc = "idle"
    /\ \E d \in EphemerisDates, p \in Planet, geo \in TheoryPoints :
        ReturnValue("planet_distance_to_earth", [d |-> d, p |-> p],
               planet_distance_to_earth(d, p, geo))

PlanetPhaseAngle ==
    /\ pc = "idle"
    /\ \E d \in EphemerisDates, p \in Planet, i \in PhaseAngles :
        ReturnValue("planet_phase_angle", [d |-> d, p |-> p],
               planet_phase_angle(d, p, i))

PlanetDiskIlluminatedFraction ==
    /\ pc = "idle"
    /\ \E d \in EphemerisDates, p \in Planet, i \in PhaseAngles :
        ReturnValue("planet_disk_illuminated_fraction", [d |-> d, p |-> p],
               planet_disk_illuminated_fraction(d, p, i))

PlanetApparentMagnitude ==
    /\ pc = "idle"
    /\ \E d \in EphemerisDates, p \in Planet, computed \in Magnitudes,
          m \in Indeterminate :
        ReturnValue("planet_apparent_magnitude", [d |-> d, p |-> p],
               planet_apparent_magnitude(d, p, computed, m))

\* locals records the position the theory yields and the auxiliary longitude
SunTruePosition ==
    /\ pc = "idle"
    /\ \E d \in EphemerisDates, beyond \in BeyondRows :
        \E t \in {sun_time(d, beyond)}, sp \in SunTheoryPoints :
            LET lp == auxiliary_longitude(sp.longitude, t)
            IN  /\ op' = "sun_true_position"
                /\ arg' = [d |-> d]
                /\ ret' = sun_true_position(d, sun_corrected_to_FK5(sp, lp))
                /\ locals' = [t |-> t, sp |-> sp, lp |-> lp]
                /\ pc' = "done"
    /\ UNCHANGED <<lt0, lt1, iter, deltat, threads>>

SunApparentPosition ==
    /\ pc = "idle"
    /\ \E d \in EphemerisDates, beyond \in BeyondRows :
        \E t \in {sun_time(d, beyond)}, sp \in SunTheoryPoints, dpsi \in Nutations :
            LET lp == auxiliary_longitude(sp.longitude, t)
            IN  /\ op' = "sun_apparent_position"
                /\ arg' = [d |-> d]
                /\ ret' = sun_apparent_position(d, sun_corrected_to_FK5(sp, lp), dpsi)
                /\ locals' = [t |-> t, sp |-> sp, lp |-> lp, dpsi |-> dpsi]
                /\ pc' = "done"
    /\ UNCHANGED <<lt0, lt1, iter, deltat, threads>>

MoonTruePosition ==
    /\ pc = "idle"
    /\ \E d \in EphemerisDates, sp \in MoonTheoryPoints :
        /\ op' = "moon_true_position"
        /\ arg' = [d |-> d]
        /\ ret' = moon_true_position(d, sp)
        /\ locals' = [sp |-> sp]
        /\ pc' = "done"
    /\ UNCHANGED <<lt0, lt1, iter, deltat, threads>>

MoonApparentPosition ==
    /\ pc = "idle"
    /\ \E d \in EphemerisDates, sp \in MoonTheoryPoints, dpsi \in Nutations :
        /\ op' = "moon_apparent_position"
        /\ arg' = [d |-> d]
        /\ ret' = moon_apparent_position(d, sp, dpsi)
        /\ locals' = [sp |-> sp, dpsi |-> dpsi]
        /\ pc' = "done"
    /\ UNCHANGED <<lt0, lt1, iter, deltat, threads>>

\* locals records the sum of the series
NutationInLongitude ==
    /\ pc = "idle"
    /\ \E d \in EphemerisDates, n \in NutationSumsInLongitude :
        /\ op' = "nutation_in_longitude"
        /\ arg' = [d |-> d]
        /\ ret' = [value |-> nutation_in_longitude(d, n)]
        /\ locals' = [n |-> n]
        /\ pc' = "done"
    /\ UNCHANGED <<lt0, lt1, iter, deltat, threads>>

NutationInObliquity ==
    /\ pc = "idle"
    /\ \E d \in EphemerisDates, n \in NutationSumsInObliquity :
        /\ op' = "nutation_in_obliquity"
        /\ arg' = [d |-> d]
        /\ ret' = [value |-> nutation_in_obliquity(d, n)]
        /\ locals' = [n |-> n]
        /\ pc' = "done"
    /\ UNCHANGED <<lt0, lt1, iter, deltat, threads>>

\* locals records the table the call passes and its number of terms
ComputeOrbitalElementsOfJ2000 ==
    /\ pc = "idle"
    /\ \E t \in SeriesTimes, p \in Planet :
        /\ op' = "compute_orbital_elements_of_J2000"
        /\ arg' = [t |-> t, p |-> p]
        /\ ret' = compute_orbital_elements_of_J2000(t, p)
        /\ locals' = [coefficients |-> orbital_coefficients_of_J2000(p),
                       m |-> TOTAL_ORBITAL_COEFFICIENTS_OF_J2000]
        /\ pc' = "done"
    /\ UNCHANGED <<lt0, lt1, iter, deltat, threads>>

ComputeOrbitalElementsOfDate ==
    /\ pc = "idle"
    /\ \E t \in SeriesTimes, p \in Planet :
        /\ op' = "compute_orbital_elements_of_date"
        /\ arg' = [t |-> t, p |-> p]
        /\ ret' = compute_orbital_elements_of_date(t, p)
        /\ locals' = [coefficients |-> orbital_coefficients_of_date(p),
                       m |-> TOTAL_ORBITAL_COEFFICIENTS_OF_DATE]
        /\ pc' = "done"
    /\ UNCHANGED <<lt0, lt1, iter, deltat, threads>>

\* locals records the value of k the call read
Aberration ==
    /\ pc = "idle"
    /\ \E d \in EphemerisDates, k0 \in IndeterminateK, f \in AberrationGeometry :
        /\ op' = "aberration"
        /\ arg' = [d |-> d, ep |-> ecliptic_point(0, 0), f |-> f]
        /\ locals' = [k |-> k0]
        /\ ret' = aberration(d, ecliptic_point(0, 0), k0, f)
        /\ pc' = "done"
    /\ UNCHANGED <<lt0, lt1, iter, deltat, threads>>

\* planet_apparent_position up to its while loop, or its else branch;
\* locals records the time t
PlanetApparentPosition ==
    /\ pc = "idle"
    /\ \E d \in EphemerisDates, p \in Planet, beyond \in BeyondRows :
        /\ op' = "planet_apparent_position"
        /\ arg' = [d |-> d, p |-> p]
        /\ iter' = 0
        /\ IF p # EARTH
           THEN /\ pc' = "light_time"
                /\ lt0' = light_time_start.lt0
                /\ lt1' = light_time_start.lt1
                /\ ret' = None
                /\ locals' = [t |-> planet_apparent_time(d, beyond)]
           ELSE /\ pc' = "done"
                /\ ret' = planet_apparent_position(d, p, None, None, 0)
                /\ UNCHANGED <<lt0, lt1, locals>>
        /\ UNCHANGED <<deltat, threads>>

\* one pass of the loop body: the theory is evaluated at t - lt0
LightTimeStep ==
    /\ pc = "light_time"
    /\ light_time_continues(lt0, lt1)
    /\ iter < MaxIter
    /\ \E geo \in TheoryPoints :
        /\ ret' = geo
        /\ lt1' = lt0
        /\ lt0' = light_time(geo.distance)
    /\ iter' = iter + 1
    /\ UNCHANGED <<op, arg, pc, locals, deltat, threads>>

\* the loop ends; the correction to the frame FK5, aberration and nutation
\* are applied; locals records the position the loop left, the auxiliary
\* longitude, the position that aberration is given, the value of k that
\* aberration read and the external values of the call
LightTimeExit ==
    /\ pc = "light_time"
    /\ ~light_time_continues(lt0, lt1)
    /\ \E k0 \in IndeterminateK, f \in AberrationGeometry, dpsi \in Nutations :
        LET lp == auxiliary_longitude(ret.longitude, locals.t)
            ep == corrected_to_FK5(ret, lp)
        IN  /\ ret' = planet_apparent_position(arg.d, arg.p, ep,
                                               aberration(arg.d, ep, k0, f), dpsi)
            /\ locals' = [t |-> locals.t, geo |-> ret, lp |-> lp, ep |-> ep,
                           k |-> k0, f |-> f, dpsi |-> dpsi]
    /\ pc' = "done"
    /\ UNCHANGED <<op, arg, lt0, lt1, iter, deltat, threads>>

\* equinox up to the do-while loop of equinox_solstice, or its else branch
EquinoxCall ==
    /\ pc = "idle"
    /\ \E y \in SolverYears, e \in Seasons, beyond \in BeyondRows :
        /\ op' = "equinox"
        /\ arg' = [y |-> y, k |-> e]
        /\ IF is_equinox(e)
           THEN /\ pc' = "equinox_solstice"
                /\ locals' = equinox_solstice_start(y, e, beyond)
                /\ ret' = None
           ELSE /\ pc' = "done"
                /\ ret' = invalid_date(y)
                /\ UNCHANGED locals
    /\ UNCHANGED <<lt0, lt1, iter, deltat, threads>>

\* solstice up to the do-while loop of equinox_solstice, or its else branch
SolsticeCall ==
    /\ pc = "idle"
    /\ \E y \in SolverYears, s \in Seasons, beyond \in BeyondRows :
        /\ op' = "solstice"
        /\ arg' = [y |-> y, k |-> s]
        /\ IF is_solstice(s)
           THEN /\ pc' = "equinox_solstice"
                /\ locals' = equinox_solstice_start(y, s, beyond)
                /\ ret' = None
           ELSE /\ pc' = "done"
                /\ ret' = invalid_date(y)
                /\ UNCHANGED locals
    /\ UNCHANGED <<lt0, lt1, iter, deltat, threads>>

\* one pass of the do-while loop: the first, or one its condition admits
SolverPass ==
    /\ pc = "equinox_solstice"
    /\ IF iter = 0 THEN TRUE ELSE equinox_solstice_continues(locals)
    /\ iter < MaxIter
    /\ \E c \in SolverCorrections, beyond \in BeyondRows :
        locals' = equinox_solstice_pass(locals, c, beyond)
    /\ iter' = iter + 1
    /\ UNCHANGED <<op, arg, ret, pc, lt0, lt1, deltat, threads>>

\* the do-while loop ends and equinox_solstice returns d
SolverExit ==
    /\ pc = "equinox_solstice"
    /\ iter > 0
    /\ ~equinox_solstice_continues(locals)
    /\ ret' = locals.d
    /\ pc' = "done"
    /\ UNCHANGED <<op, arg, lt0, lt1, iter, locals, deltat, threads>>

Rising ==
    /\ pc = "idle"
    /\ \E cosh0 \in CosH0, m \in TransitTimes :
        ReturnValue("rising", [cosh0 |-> cosh0, m |-> m], rising(cosh0, m))

Setting ==
    /\ pc = "idle"
    /\ \E cosh0 \in CosH0, m \in TransitTimes :
        ReturnValue("setting", [cosh0 |-> cosh0, m |-> m], setting(cosh0, m))

(***************************************************************************)
(* Concurrent callers.  Each caller has its own stack (op, arg, ret, pc,   *)
(* iter, locals); the static arrays are the only storage the callers have  *)
(* in common.  A step is one call of dynamical_time_difference, or equinox *)
(* or solstice up to the do-while loop, or one pass of that loop, or its   *)
(* end: each pass reads the static arrays anew.                            *)
(***************************************************************************)
\* equinox or solstice up to the do-while loop of equinox_solstice
ThreadEquinoxSolstice(t) ==
    /\ threads[t].pc = "idle"
    /\ \E y \in SolverYears, k \in VERNAL_EQUINOX..WINTER_SOLSTICE,
          beyond \in BeyondRows :
        threads' = [threads EXCEPT ![t] =
            [op |-> IF is_equinox(k) THEN "equinox" ELSE "solstice",
             arg |-> [y |-> y, k |-> k], ret |-> None,
             pc |-> "equinox_solstice", iter |-> 0,
             locals |-> equinox_solstice_start(y, k, beyond),
             externals |-> <<>>]]
    /\ UNCHANGED <<op, arg, ret, pc, lt0, lt1, iter, locals, deltat>>

\* one pass of the do-while loop that converts the bracketing row of the
\* table to days in place
ThreadSolverPassInPlace(t) ==
    LET th   == threads[t]
        look == deltat_lookup(th.locals.d)
    IN  /\ th.pc = "equinox_solstice"
        /\ IF th.iter = 0 THEN TRUE ELSE equinox_solstice_continues(th.locals)
        /\ th.iter < MaxIter
        /\ \E c \in ThreadCorrections, beyond \in BeyondRows :
            threads' = [threads EXCEPT ![t] =
                [th EXCEPT !.locals = equinox_solstice_pass(th.locals, c, beyond),
                           !.iter = th.iter + 1,
                           !.externals = Append(th.externals, c)]]
        /\ deltat' =
               IF look.table = "pre_telescope"
               THEN [deltat EXCEPT !.pre_telescope_era[look.i + 1][2] =
                                       @ \div 86400]
               ELSE [deltat EXCEPT !.telescope_era[look.i + 1][2] =
                                       @ \div 86400]
        /\ UNCHANGED <<op, arg, ret, pc, lt0, lt1, iter, locals>>

\* one pass of the do-while loop: the first, or one its condition admits
ThreadSolverPass(t) ==
    LET th == threads[t]
    IN  /\ th.pc = "equinox_solstice"
        /\ IF th.iter = 0 THEN TRUE ELSE equinox_solstice_continues(th.locals)
        /\ th.iter < MaxIter
        /\ \E c \in ThreadCorrections, beyond \in BeyondRows :
            threads' = [threads EXCEPT ![t] =
                [th EXCEPT !.locals = equinox_solstice_pass(th.locals, c, beyond),
                           !.iter = th.iter + 1,
                           !.externals = Append(th.externals, c)]]
        /\ UNCHANGED <<op, arg, ret, pc, lt0, lt1, iter, locals, deltat>>

\* the do-while loop ends and equinox_solstice returns d
ThreadSolverExit(t) ==
    LET th == threads[t]
    IN  /\ th.pc = "equinox_solstice"
        /\ th.iter > 0
        /\ ~equinox_solstice_continues(th.locals)
        /\ threads' = [threads EXCEPT ![t] =
               [th EXCEPT !.ret = th.locals.d, !.pc = "done"]]
        /\ UNCHANGED <<op, arg, ret, pc, lt0, lt1, iter, locals, deltat>>

ThreadDynamicalTimeDifference(t) ==
    /\ threads[t].pc = "idle"
    /\ \E d \in ThreadDates, beyond \in BeyondRows :
        threads' = [threads EXCEPT ![t] =
            [idle_thread EXCEPT !.op = "dynamical_time_difference",
                                !.arg = d,
                                !.ret = dynamical_time_difference(d, beyond),
                                !.pc = "done"]]
    /\ UNCHANGED <<op, arg, ret, pc, lt0, lt1, iter, locals, deltat>>

EclipticToEquatorial ==
    /\ pc = "idle"
    /\ \E cv \in ConversionInputs :
        Return("ecliptic_to_equatorial", cv,
               [eqp |-> ecliptic_to_equatorial(cv.ecp, cv.e)])

\* equatorial_to_ecliptic applied to the equatorial point of an ecliptic point
EquatorialToEcliptic ==
    /\ pc = "idle"
    /\ \E cv \in ConversionInputs :
        Return("equatorial_to_ecliptic",
               [eqp |-> ecliptic_to_equatorial(cv.ecp, cv.e), e |-> cv.e],
               [ecp |-> equatorial_to_ecliptic(
                            ecliptic_to_equatorial(cv.ecp, cv.e), cv.e)])

Next ==
    \/ IsDateValid
    \/ IsLeapYear
    \/ DayOfWeek
    \/ DayOfYear
    \/ JulianDate
    \/ CalendarDate
    \/ DateOfEaster
    \/ DynamicalTimeDifference
    \/ PlanetTruePosition
    \/ PlanetDistanceToEarth
    \/ PlanetPhaseAngle
    \/ PlanetDiskIlluminatedFraction
    \/ PlanetApparentMagnitude
    \/ Aberration
    \/ PlanetApparentPosition
    \/ LightTimeStep
    \/ LightTimeExit
    \/ NutationInLongitude
    \/ NutationInObliquity
    \/ ComputeOrbitalElementsOfJ2000
    \/ ComputeOrbitalElementsOfDate
    \/ SunTruePosition
    \/ SunApparentPosition
    \/ MoonTruePosition
    \/ MoonApparentPosition
    \/ EquinoxCall
    \/ SolsticeCall
    \/ SolverPass
    \/ SolverExit
    \/ Rising
    \/ Setting
    \/ EclipticToEquatorial
    \/ EquatorialToEcliptic

Spec == Init /\ [][Next]_vars

ConcurrentNext ==
    \E t \in Threads :
        \/ ThreadEquinoxSolstice(t)
        \/ ThreadSolverPass(t)
        \/ ThreadSolverExit(t)
        \/ ThreadDynamicalTimeDifference(t)

ConcurrentSpec == Init /\ [][ConcurrentNext]_vars

(***************************************************************************)
(* The calendar the claims speak of, stated apart from the code.           *)
(***************************************************************************)
Divides(k, n) == n % k = 0

LeapRule(y) ==
    IF y >= 1582
    THEN (Divides(4, y) /\ ~Divides(100, y)) \/ Divides(400, y)
    ELSE Divides(4, y)

DaysIn(month, year) ==
    IF month = 2 THEN (IF LeapRule(year) THEN 29 ELSE 28)
    ELSE IF month \in {4, 6, 9, 11} THEN 30 ELSE 31

\* a day removed by the Gregorian reform: 5 to 14 October 1582
Removed(d) == d.year = 1582 /\ d.month = 10 /\ d.day.i \in 5..14

\* before 1.5 January -4712, that is, of negative Julian Date
BeforeJulianStart(d) ==
    \/ d.year < -4712
    \/ d.year = -4712 /\ d.month = 1 /\ FxLess(d.day, Fx(1, HalfLimb, 0))

\* the four conditions of a valid date
IsValidDate(d) ==
    /\ d.month \in 1..12
    /\ d.day.i \in 1..DaysIn(d.month, d.year)
    /\ ~BeforeJulianStart(d)
    /\ ~Removed(d)

\* the next calendar day at the same time of day
NextDay(d) ==
    IF d.year = 1582 /\ d.month = 10 /\ d.day.i = 4
    THEN [d EXCEPT !.day.i = 15]
    ELSE IF d.day.i < DaysIn(d.month, d.year)
    THEN [d EXCEPT !.day.i = d.day.i + 1]
    ELSE IF d.month < 12
    THEN [d EXCEPT !.day.i = 1, !.month = d.month + 1]
    ELSE [d EXCEPT !.day.i = 1, !.month = 1, !.year = d.year + 1]

\* 0h of the calendar day of d
Midnight(d) == [d EXCEPT !.day = FxInt(d.day.i)]

(***************************************************************************)
(* Claims.                                                                 *)
(***************************************************************************)
\* C1: is_date_valid(d) returns nonzero if and only if d.month is in 1..12,
\* d.day is in [1, daysInMonth + 1), d is not before 1.5 January -4712 and
\* d is not a day removed by the Gregorian reform.
C1_ValidIffFourConditions ==
    op = "is_date_valid" => ((ret.value # 0) <=> IsValidDate(arg))

\* C2: is_date_valid returns 0 for every date from 5 to 14 October 1582 and
\* nonzero for 4 October 1582 and 15 October 1582.
C2_ReformGap ==
    (op = "is_date_valid" /\ arg.year = 1582 /\ arg.month = OCTOBER) =>
        /\ arg.day.i \in 5..14 => ret.value = 0
        /\ (FxEq(arg.day, FxInt(4)) \/ FxEq(arg.day, FxInt(15))) => ret.value # 0

C5_LeapYearRule ==
    op = "is_leap_year" =>
        /\ ret.value = (IF LeapRule(arg.year) THEN 1 ELSE 0)
        /\ arg.year = 2000 => ret.value = 1
        /\ arg.year = 1900 => ret.value = 0
        /\ arg.year = 1500 => ret.value = 1

C5_Witness == op = "is_leap_year" /\ arg.year = 1500 /\ ret.value = 1

C7_DayOfYearOrdinal ==
    (op = "day_of_year" /\ IsValidDate(arg)) =>
        /\ (arg.month = JANUARY /\ arg.day.i = 1) => ret.value = 1
        /\ NextDay(arg).year = arg.year => day_of_year(NextDay(arg)) = ret.value + 1
        /\ (arg.month = DECEMBER /\ arg.day.i = 31) =>
               ret.value = (IF LeapRule(arg.year) THEN 366 ELSE 365)
        /\ ret.value \in 1..366

\* C7 as amended: day_of_year(d) is 1 for 1 January, grows by exactly 1 from
\* each valid calendar date to the next valid calendar date of the same
\* year, except that it grows by 11 from 4 October 1582 to 15 October 1582
\* (the ten removed days keep their numbers), and is 365 on 31 December of
\* a common year, 1582 included, and 366 on 31 December of a leap year, so
\* that it lies in 1..366.
C7_DayOfYearNominal ==
    (op = "day_of_year" /\ IsValidDate(arg)) =>
        /\ (arg.month = JANUARY /\ arg.day.i = 1) => ret.value = 1
        /\ NextDay(arg).year = arg.year =>
               day_of_year(NextDay(arg)) =
                   ret.value + (IF Midnight(arg) = JULIAN_END_DATE THEN 11 ELSE 1)
        /\ (arg.month = DECEMBER /\ arg.day.i = 31) =>
               ret.value = (IF LeapRule(arg.year) THEN 366 ELSE 365)
        /\ ret.value \in 1..366

C7_Witness ==
    /\ op = "day_of_year"
    /\ IsValidDate(arg)
    /\ Midnight(arg) = JULIAN_END_DATE
    /\ ret.value = 277
    /\ day_of_year(NextDay(arg)) = 288

\* C8: for every breakpoint year Y of either table, a date on 1 January of
\* year Y yields exactly the tabulated delta T of Y.
C8_ExactAtBreakpoints ==
    (/\ op = "dynamical_time_difference"
     /\ arg.month = JANUARY
     /\ FxEq(arg.day, FxInt(1))) =>
        \A k \in 1..TELESCOPE_ERA_TOTAL_TERMS :
            /\ (/\ k <= PRE_TELESCOPE_ERA_TOTAL_TERMS
                /\ arg.year = deltat_pre_telescope_era[k][1]) =>
                   ret.dt.num = deltat_pre_telescope_era[k][2] * ret.dt.den
            /\ arg.year = deltat_telescope_era[k][1] =>
                   ret.dt.num = deltat_telescope_era[k][2] * ret.dt.den

\* C9: for a year below -1000 or above 2020 dynamical_time_difference is
\* -20 + 32 * ((year - 1820) / 100)^2, whatever the month and the day, and
\* for a year from -1000 to 2020 it uses the tables.
C9_Extrapolation ==
    op = "dynamical_time_difference" =>
        IF arg.year < -1000 \/ arg.year > 2020
        THEN /\ ret.table = "none"
             /\ ret.dt.den = 10000
             /\ ret.dt.num + 20 * 10000 = 32 * (arg.year - 1820) * (arg.year - 1820)
             /\ \A beyond \in BeyondRows :
                    dynamical_time_difference(date(FxInt(1), JANUARY, arg.year), beyond) = ret.dt
        ELSE ret.table \in {"pre_telescope", "telescope"}

C9_Witness ==
    /\ op = "dynamical_time_difference"
    /\ arg.year = 2021
    /\ arg.month = DECEMBER
    /\ ret.table = "none"
    /\ ret.dt.num = 32 * 201 * 201 - 200000

\* C10: for the planet EARTH planet_true_position and
\* planet_apparent_position return (0, 0) and planet_distance_to_earth
\* returns 0, for every date.
C10_EarthSentinel ==
    (/\ pc = "done"
     /\ op \in {"planet_true_position", "planet_apparent_position",
                "planet_distance_to_earth"}
     /\ arg.p = EARTH) =>
        /\ op \in {"planet_true_position", "planet_apparent_position"} =>
               ret = ecliptic_point(0, 0)
        /\ op = "planet_distance_to_earth" => ret.value = 0

C10_Witness ==
    /\ pc = "done"
    /\ op = "planet_apparent_position"
    /\ arg.p = EARTH
    /\ ret = ecliptic_point(0, 0)
    /\ iter = 0

\* C11: for the planet EARTH planet_phase_angle,
\* planet_disk_illuminated_fraction and planet_apparent_magnitude each
\* return the sentinel -1, for every date.
C11_EarthSentinels ==
    (/\ pc = "done"
     /\ op \in {"planet_phase_angle", "planet_disk_illuminated_fraction",
                "planet_apparent_magnitude"}
     /\ arg.p = EARTH) =>
        ret.value = ERROR_VALUE

\* C12: equinox with an argument other than VERNAL_EQUINOX and
\* AUTUMNAL_EQUINOX, and solstice with one other than SUMMER_SOLSTICE and
\* WINTER_SOLSTICE, return the invalid date (day -1, UNKNOWN_MONTH, year y)
\* without a pass of the solver; with an argument of the set they enter the
\* solver and make at least one pass before they return.
C12_InvalidSeason ==
    op \in {"equinox", "solstice"} =>
        LET inside == IF op = "equinox"
                      THEN arg.k \in {VERNAL_EQUINOX, AUTUMNAL_EQUINOX}
                      ELSE arg.k \in {SUMMER_SOLSTICE, WINTER_SOLSTICE}
        IN  /\ ~inside => /\ pc = "done"
                          /\ iter = 0
                          /\ locals = None
                          /\ ret = date(FxInt(-1), UNKNOWN_MONTH, arg.y)
            /\ inside => /\ locals # None
                         /\ pc = "done" => iter >= 1

C12_Witness ==
    /\ op = "equinox"
    /\ arg.k = SUMMER_SOLSTICE
    /\ pc = "done"
    /\ ret = date(FxInt(-1), UNKNOWN_MONTH, arg.y)
    /\ iter = 0

\* a solver entered by solstice returns a date of the year
C12_WitnessSolved ==
    /\ op = "solstice"
    /\ arg.k = WINTER_SOLSTICE
    /\ pc = "done"
    /\ iter >= 2
    /\ ret.year = arg.y

\* C13: rising and setting return -1 exactly when the absolute value of
\* cosh0 is greater than 1, and a time from 0 to 24 hours in every other
\* case.
C13_NeverRisesSentinel ==
    op \in {"rising", "setting"} =>
        /\ ret.value = -Micro <=> (arg.cosh0 > Micro \/ arg.cosh0 < -Micro)
        /\ (arg.cosh0 <= Micro /\ arg.cosh0 >= -Micro) =>
               (0 <= ret.value /\ ret.value <= 24 * Micro)

\* a body that rises a quarter of a day before a transit at 0 h
C13_Witness ==
    /\ op = "rising"
    /\ arg.cosh0 = 0
    /\ arg.m = Micro
    /\ ret.value = 18 * Micro

\* C14: the light-time iteration of planet_apparent_position ends within a
\* bounded number of passes (here MaxIter), whatever distances the planetary
\* theory returns: after that many passes the loop condition is false.
C14_LightTimeTerminates ==
    (/\ op = "planet_apparent_position"
     /\ pc = "light_time"
     /\ iter >= MaxIter) =>
        ~light_time_continues(lt0, lt1)

\* C15: the light-time iteration of planet_apparent_position starts from a
\* light-time of 0, makes at least one pass, sets the light-time to
\* 0.0057755183 times the distance in each pass, and ends only when the
\* last two light-times differ by at most 1e-7 day (10^7 units of 10^-14
\* day).
C15_LightTimeCriterion ==
    (op = "planet_apparent_position" /\ arg.p # EARTH) =>
        /\ (pc = "light_time" /\ iter = 0) => lt0 = 0
        /\ (pc = "light_time" /\ iter > 0) => lt0 = 57755183 * ret.distance
        /\ pc = "done" => (iter >= 1 /\ Abs(lt0 - lt1) <= 10^7)

\* C16: aberration computes its correction with the aberration constant
\* set to ABERRATION_CONSTANT: the value its local k holds when it is first
\* read is that constant.
C16_AberrationConstant ==
    op = "aberration" => locals.k = ABERRATION_CONSTANT

\* C17: no returned value depends on a variable that is read before it is
\* assigned: the result of aberration and of planet_apparent_position is the
\* same whatever the local k of aberration held, and the result of
\* planet_apparent_magnitude the same whatever its local m held, for every
\* planet, EARTH included.
C17_NoIndeterminateRead ==
    pc = "done" =>
        /\ op = "aberration" =>
               \A k0 \in IndeterminateK :
                   aberration(arg.d, arg.ep, k0, arg.f) = ret
        /\ (op = "planet_apparent_position" /\ arg.p # EARTH) =>
               \A k0 \in IndeterminateK :
                   planet_apparent_position(arg.d, arg.p, locals.ep,
                       aberration(arg.d, locals.ep, k0, locals.f),
                       locals.dpsi) = ret
        /\ op = "planet_apparent_magnitude" =>
               \A m \in Indeterminate :
                   planet_apparent_magnitude(arg.d, arg.p, ret.value, m) = ret.value

(***************************************************************************)
(* C18.                                                                    *)
(***************************************************************************)
RECURSIVE equinox_solstice_alone(_, _, _, _)
\* the locals of equinox_solstice after the passes that got the corrections
\* cs, the call running alone (a set of one element)
equinox_solstice_alone(y, k, cs, beyond) ==
    IF cs = <<>> THEN {equinox_solstice_start(y, k, beyond)}
    ELSE {equinox_solstice_pass(loc, cs[Len(cs)], beyond) :
              loc \in equinox_solstice_alone(y, k, SubSeq(cs, 1, Len(cs) - 1),
                                             beyond)}

\* the results a finished call of a concurrent caller may return when it runs
\* alone
ResultsAlone(th) ==
    IF th.op = "dynamical_time_difference"
    THEN {dynamical_time_difference(th.arg, beyond) : beyond \in BeyondRows}
    ELSE {loc.d : loc \in UNION {equinox_solstice_alone(th.arg.y, th.arg.k,
                                                        th.externals, beyond) :
                                     beyond \in BeyondRows}}

C19_RoundTrip ==
    op = "equatorial_to_ecliptic" =>
        \A cv \in ConversionInputs :
            (/\ arg.eqp = ecliptic_to_equatorial(cv.ecp, cv.e)
             /\ arg.e = cv.e) => ret.ecp = cv.ecp

(***************************************************************************)
(* C20.                                                                    *)
(***************************************************************************)
\* C20: for every valid date of a year of [-1000, 2020],
\* dynamical_time_difference takes the table of the era of the year
\* (pre-telescope before 1700) and two rows i and i + 1 that both are rows of
\* that table and whose years bracket the decimal year
\* dy = year + day_of_year / (365 + leap) of the date
C20_RowsExistAndBracket ==
    (/\ op = "dynamical_time_difference"
     /\ IsValidDate(arg)
     /\ arg.year \in DELTA_T_TABLE_START_YEAR..DELTA_T_TABLE_END_YEAR) =>
        LET pre   == arg.year < TELESCOPE_ERA_START_YEAR
            table == IF pre THEN deltat.pre_telescope_era
                     ELSE deltat.telescope_era
            last  == IF pre THEN PRE_TELESCOPE_ERA_TOTAL_TERMS - 1
                     ELSE TELESCOPE_ERA_TOTAL_TERMS - 1
            len   == 365 + is_leap_year(arg.year)
            dy    == arg.year * len + day_of_year(arg)
        IN  /\ ret.table = IF pre THEN "pre_telescope" ELSE "telescope"
            /\ ret.i >= 0
            /\ ret.i + 1 <= last
            /\ table[ret.i + 1][1] * len <= dy
            /\ dy <= table[ret.i + 2][1] * len

(***************************************************************************)
(* C21.                                                                    *)
(***************************************************************************)
\* C21: the reform-gap test of is_date_valid flags a date of October 1582 as
\* removed exactly when the integer part of its day is in 5..14; any time of
\* day on 4 October and on 15 October 1582 is outside the gap
C21_GapByIntegerDay ==
    (op = "is_date_valid" /\ arg.year = 1582 /\ arg.month = OCTOBER) =>
        (reform_gap_test(arg) <=> arg.day.i \in 5..14)

(***************************************************************************)
(* C22.                                                                    *)
(***************************************************************************)
\* 1e-7 day, cut to 52 fractional bits
SolverTolerance == Fx(0, 6, 47706778)

FxAbs(a) == IF a.i < 0 THEN FxNeg(a) ELSE a

\* C22: equinox and solstice return a date of the solver only after a pass
\* whose correction c satisfies |c| <= 1e-7, be the correction positive or
\* negative
C22_ExitOnSmallCorrection ==
    (/\ op \in {"equinox", "solstice"}
     /\ pc = "done"
     /\ arg.k \in VERNAL_EQUINOX..WINTER_SOLSTICE
     /\ IF op = "equinox" THEN is_equinox(arg.k) ELSE is_solstice(arg.k)) =>
        ~FxLess(SolverTolerance, FxAbs(locals.c))

(***************************************************************************)
(* C23.                                                                    *)
(***************************************************************************)
\* C23: in every pass of the solver the date for the next pass is the
\* calendar date of the corrected Julian Ephemeris Date less the delta T of
\* the current date converted from seconds to days, as julian_ephemeris_date
\* converts it: d = calendar_date(jde - dt / 86400)
C23_InverseOfEphemerisDate ==
    [][(pc = "equinox_solstice" /\ iter' = iter + 1) =>
        \E beyond \in BeyondRows :
            locals'.d = calendar_date(RoundToDouble(FxSub(locals'.jde,
                seconds_to_days(dynamical_time_difference(locals.d, beyond)))))
      ]_vars

C25_LongitudeInRange ==
    (/\ op \in {"sun_true_position", "sun_apparent_position",
                "moon_true_position", "moon_apparent_position",
                "planet_true_position", "planet_apparent_position"}
     /\ pc = "done"
     /\ op \in {"planet_true_position", "planet_apparent_position"} =>
            arg.p # EARTH) =>
        (0 <= ret.longitude /\ ret.longitude < TWO_PI)

\* the sum over j < n of coefficients[i * m + j] * t^j
RECURSIVE ChannelSum(_, _, _, _, _)
ChannelSum(coefficients, m, i, t, n) ==
    IF n = 0 THEN 0
    ELSE ChannelSum(coefficients, m, i, t, n - 1)
             + coefficients[i * m + (n - 1)] * (IF n = 1 THEN 1 ELSE t^(n - 1))

\* C26: compute_orbital_elements_series evaluates each of the six channels
\* i as the sum over j < m of coefficients[i * m + j] * t^j, reads the
\* indexes 0..6m-1 and no other, m being 5 for a table of J2000 and 8 for a
\* table of date, the declared size of the table being 6m, and writes the
\* channel lambda (1) to elements[PLANET_MEAN_LONGITUDE] and the channel a
\* (0) to elements[SEMI_MAJOR_AXIS].
C26_SeriesOfChannels ==
    op \in {"compute_orbital_elements_of_J2000",
            "compute_orbital_elements_of_date"} =>
        /\ locals.m = (IF op = "compute_orbital_elements_of_J2000" THEN 5 ELSE 8)
        /\ DOMAIN locals.coefficients = 0..(6 * locals.m - 1)
        /\ ret.reads = 0..(6 * locals.m - 1)
        /\ \A i \in 0..5 :
            ret.ve[i] = ChannelSum(locals.coefficients, locals.m, i, arg.t, locals.m)
        /\ ret.elements[PLANET_MEAN_LONGITUDE] =
               ChannelSum(locals.coefficients, locals.m, 1, arg.t, locals.m)
        /\ ret.elements[SEMI_MAJOR_AXIS] =
               ChannelSum(locals.coefficients, locals.m, 0, arg.t, locals.m)

\* a series of date evaluated away from t = 0 and t = 1, where the channels
\* a and lambda differ and the last term of a channel counts
C26_Witness ==
    /\ op = "compute_orbital_elements_of_date"
    /\ arg.t = -2
    /\ ret.elements[PLANET_MEAN_LONGITUDE] # ret.elements[SEMI_MAJOR_AXIS]
    /\ locals.coefficients[47] # 0
    /\ ret.ve[5] # ChannelSum(locals.coefficients, locals.m, 5, arg.t, locals.m - 1)

\* C27: nutation_in_longitude and nutation_in_obliquity take the sum of
\* the series from units of 10^-5 arcsecond to radians: the result is the
\* sum times pi / (648000 * 10^5), which in units of 10^-5 arcsecond, where
\* pi is 648000 * 10^5, is the sum times pi / 648000 in arcseconds.
C27_ScaleOfNutation ==
    (op \in {"nutation_in_longitude", "nutation_in_obliquity"} /\ pc = "done") =>
        ret.value = locals.n * (PI_ARCSEC \div 648000)

\* C28: for the same date and the same geocentric coordinates before the
\* correction, the correction to the frame FK5 that planet_apparent_position
\* applies is the one that planet_true_position applies: the auxiliary
\* longitude is the same, the time of its formula being in the same unit.
C28_SameFrameCorrection ==
    (op = "planet_apparent_position" /\ pc = "done" /\ arg.p # EARTH) =>
        \E beyond \in BeyondRows :
            LET lp == auxiliary_longitude(locals.geo.longitude,
                                          planet_true_time(arg.d, beyond))
            IN  /\ locals.lp = lp
                /\ locals.ep = corrected_to_FK5(locals.geo, lp)

\* C29: planet_true_position and planet_apparent_position convert the
\* constants -0.09033 and 0.03916 arcseconds of the correction to the frame
\* FK5 to radians with the factor of sun_true_position and
\* sun_apparent_position, pi / 648000: on the same auxiliary longitude, at
\* the latitude 0, the correction of the longitude is that of the Sun less
\* the term of 0.03916 arcsecond, and the correction of the latitude is that
\* of the Sun.
C29_SameConversionFactor ==
    (/\ op \in {"planet_true_position", "planet_apparent_position"}
     /\ pc = "done"
     /\ arg.p # EARTH
     /\ locals.geo.latitude = 0) =>
        LET pc5 == planet_frame_correction(locals.lp, locals.geo.latitude)
            sc5 == sun_frame_correction(locals.lp)
        IN  /\ pc5.latitude = sc5.latitude
            /\ pc5.longitude =
                   sc5.longitude
                       + CDiv(3916 * cos_fifths(locals.lp) * (PI_ARCSEC \div 648000), 5)

\* C30: for every year y of 1..MaxEasterYear, by the formulas of the Julian
\* calendar for y <= 1582 and of the Gregorian calendar for y > 1582,
\* date_of_easter(y) is a date of the year y whose day is a whole number,
\* from 22 March to 25 April, and a Sunday by day_of_week.
C30_EasterSunday ==
    op = "date_of_easter" =>
        /\ ret.year = arg.y
        /\ ret.day.h = 0
        /\ ret.day.l = 0
        /\ \/ ret.month = 3 /\ ret.day.i \in 22..31
           \/ ret.month = 4 /\ ret.day.i \in 1..25
        /\ day_of_week(ret) = 7

\* Easter of 1943, the latest there is, by the formulas of the Gregorian
\* calendar
C30_Witness ==
    /\ op = "date_of_easter"
    /\ arg.y = 1943
    /\ ret = date(FxInt(25), 4, 1943)
    /\ day_of_week(ret) = SUNDAY

====
